---- MODULE Spec2Model ----
(***************************************************************************)
(* Model of the zap listener (src/listen_zaps.py): the BOLT11 amount       *)
(* decoder, the amount resolution of parse_zap, the dedup store with its   *)
(* cursor, the weekly ranking and the ingestion loop of main().            *)
(*                                                                         *)
(* Representation choices                                                  *)
(*  - A Python str is a sequence of one-character strings.                 *)
(*  - Python integers are unbounded.  A millisatoshi amount read from a    *)
(*    tag is kept in base 1000 as [q, r] (the integer q*1000 + r with      *)
(*    0 <= r < 1000), so that x // 1000 is q and sats*1000 is [sats, 0].   *)
(*    The decoder's result is kept as [m, e] (the integer m * 10^e).       *)
(*  - An optional value carries a boolean flag next to its payload.        *)
(***************************************************************************)
EXTENDS Integers, Sequences, FiniteSets, TLC

\* ------------------------------------------------------------------------
\* Bounds of the model
\* ------------------------------------------------------------------------
\* longest amount field of the invoices the decoder is applied to
MaxAmtLen == 4

\* rows of the zaps tables rank_for_week is applied to
MaxRows == 3

\* ------------------------------------------------------------------------
\* Characters and strings
\* ------------------------------------------------------------------------
Digits == <<"0", "1", "2", "3", "4", "5", "6", "7", "8", "9">>

IsDigit(c) == \E i \in 1..10 : Digits[i] = c

DigitVal(c) == (CHOOSE i \in 1..10 : Digits[i] = c) - 1

LowerLetters == {"a", "b", "c", "l", "m", "n", "p", "q", "t", "u", "x"}

UpperLetters == {"B", "C", "L", "N", "T"}

\* str.isalpha() on one character
IsAlpha(c) == c \in LowerLetters \cup UpperLetters

\* str.lower() on one character
LowerChar(c) ==
    CASE c = "B" -> "b"
      [] c = "C" -> "c"
      [] c = "L" -> "l"
      [] c = "N" -> "n"
      [] c = "T" -> "t"
      [] OTHER -> c

Lower(s) == [i \in 1..Len(s) |-> LowerChar(s[i])]

RECURSIVE StripLeft(_)
StripLeft(s) == IF s # <<>> /\ Head(s) = " " THEN StripLeft(Tail(s)) ELSE s

RECURSIVE StripRight(_)
StripRight(s) ==
    IF s # <<>> /\ s[Len(s)] = " " THEN StripRight(SubSeq(s, 1, Len(s) - 1)) ELSE s

\* str.strip()
Strip(s) == StripRight(StripLeft(s))

\* str.find(c): the 1-based index of the first occurrence, 0 when there is none
Find(s, c) ==
    IF \E i \in 1..Len(s) : s[i] = c
    THEN CHOOSE i \in 1..Len(s) : s[i] = c /\ \A j \in 1..(i - 1) : s[j] # c
    ELSE 0

RECURSIVE Pow10(_)
Pow10(n) == IF n = 0 THEN 1 ELSE 10 * Pow10(n - 1)

\* the number written by a sequence of digits
RECURSIVE DigitsVal(_)
DigitsVal(s) ==
    IF s = <<>> THEN 0
    ELSE 10 * DigitsVal(SubSeq(s, 1, Len(s) - 1)) + DigitVal(s[Len(s)])

AllDigits(s) == \A i \in 1..Len(s) : IsDigit(s[i])

\* ------------------------------------------------------------------------
\* decimal.Decimal(num_str), for strings of digits, '.', and a leading sign.
\* The result is mant * 10^(-frac); ok is FALSE where Decimal raises.
\* (No 'e', '_' or letter reaches Decimal from the alphabets used here.)
\* ------------------------------------------------------------------------
NoDecimal == [ok |-> FALSE, mant |-> 0, frac |-> 0]

\* the integer and fractional digits of an unsigned decimal
DecimalOfParts(ip, fp) ==
    IF AllDigits(ip) /\ AllDigits(fp) /\ (ip \o fp) # <<>>
    THEN [ok |-> TRUE, mant |-> DigitsVal(ip \o fp), frac |-> Len(fp)]
    ELSE NoDecimal

SplitAtDot(s, dot) ==
    IF dot = 0 THEN DecimalOfParts(s, <<>>)
    ELSE DecimalOfParts(SubSeq(s, 1, dot - 1), SubSeq(s, dot + 1, Len(s)))

UnsignedDecimal(s) == SplitAtDot(s, Find(s, "."))

NegDecimal(u) == [u EXCEPT !.mant = 0 - u.mant]

Decimal(s) ==
    IF s # <<>> /\ Head(s) = "-" THEN NegDecimal(UnsignedDecimal(Tail(s)))
    ELSE IF s # <<>> /\ Head(s) = "+" THEN UnsignedDecimal(Tail(s))
    ELSE UnsignedDecimal(s)

\* ------------------------------------------------------------------------
\* msat_from_bolt11
\* ------------------------------------------------------------------------
\* the decoder's result: none, or the integer m * 10^e
NoneMsat == [none |-> TRUE, m |-> 0, e |-> 0]

SomeMsat(m, e) == [none |-> FALSE, m |-> m, e |-> e]

\* int(x) of a Decimal: truncation toward zero
TruncDiv(m, d) == IF m >= 0 THEN m \div d ELSE 0 - ((0 - m) \div d)

\* the power of ten each multiplier letter stands for, in msat
SufExp(suf) ==
    CASE suf = "m" -> 8
      [] suf = "u" -> 5
      [] suf = "n" -> 2
      [] suf = "p" -> 0 - 1
      [] OTHER -> 11

\* int(val * factor): val = mant * 10^(-frac), factor = 10^k
ScaleToMsat(val, k) ==
    IF k - val.frac >= 0
    THEN SomeMsat(val.mant, k - val.frac)
    ELSE SomeMsat(TruncDiv(val.mant, Pow10(val.frac - k)), 0)

\* the index of the first character of hrp_body that is not a letter
RECURSIVE SkipAlpha(_, _)
SkipAlpha(s, i) == IF i <= Len(s) /\ IsAlpha(s[i]) THEN SkipAlpha(s, i + 1) ELSE i

\* int(Decimal(num_str) * factor); None where Decimal raises
AmountToMsat(num_str, suf) ==
    IF num_str = <<>> THEN NoneMsat
    ELSE IF ~Decimal(num_str).ok THEN NoneMsat
    ELSE ScaleToMsat(Decimal(num_str), SufExp(suf))

\* the multiplier letter is split from the amount when the last one is in "munp"
SplitMultiplier(amount_part) ==
    IF amount_part = <<>> THEN NoneMsat
    ELSE IF amount_part[Len(amount_part)] \in {"m", "u", "n", "p"}
    THEN AmountToMsat(SubSeq(amount_part, 1, Len(amount_part) - 1),
                      amount_part[Len(amount_part)])
    ELSE AmountToMsat(amount_part, "")

\* hrp_body[i:] after the alphabetic currency prefix
AmountPart(hrp_body) == SubSeq(hrp_body, SkipAlpha(hrp_body, 1), Len(hrp_body))

\* s[2:pos1], where pos1 is the first '1' of the whole string
HrpBody(s, pos1) ==
    IF pos1 = 0 THEN NoneMsat ELSE SplitMultiplier(AmountPart(SubSeq(s, 3, pos1 - 1)))

\* the decoder on the stripped, lower-cased invoice
DecodeLowered(s) ==
    IF ~(Len(s) >= 2 /\ s[1] = "l" /\ s[2] = "n") THEN NoneMsat
    ELSE HrpBody(s, Find(s, "1"))

msat_from_bolt11(pr) == DecodeLowered(Lower(Strip(pr)))

\* equality of decoder results as integers: m * 10^e with trailing zeros moved
RECURSIVE NormMsat(_)
NormMsat(x) ==
    IF x.none THEN NoneMsat
    ELSE IF x.m = 0 THEN SomeMsat(0, 0)
    ELSE IF x.m % 10 = 0 THEN NormMsat(SomeMsat(x.m \div 10, x.e + 1))
    ELSE x

\* ------------------------------------------------------------------------
\* int(s) of a tag value, and integers in base 1000
\* ------------------------------------------------------------------------
NoInt == [ok |-> FALSE, q |-> 0, r |-> 0]

\* the integer q*1000 + r written by a non-empty sequence of digits
DigitsBig(d) ==
    IF Len(d) <= 3
    THEN [ok |-> TRUE, q |-> 0, r |-> DigitsVal(d)]
    ELSE [ok |-> TRUE, q |-> DigitsVal(SubSeq(d, 1, Len(d) - 3)),
                       r |-> DigitsVal(SubSeq(d, Len(d) - 2, Len(d)))]

BigNeg(x) ==
    IF x.r = 0 THEN [x EXCEPT !.q = 0 - x.q]
    ELSE [x EXCEPT !.q = 0 - x.q - 1, !.r = 1000 - x.r]

\* int(str): optional sign, then digits; ok is FALSE where int raises ValueError
SignedDigits(neg, d) ==
    IF d = <<>> \/ ~AllDigits(d) THEN NoInt
    ELSE IF neg THEN BigNeg(DigitsBig(d))
    ELSE DigitsBig(d)

IntOfStripped(s) ==
    IF s # <<>> /\ Head(s) \in {"-", "+"} THEN SignedDigits(Head(s) = "-", Tail(s))
    ELSE SignedDigits(FALSE, s)

ParseInt(str) == IntOfStripped(Strip(str))

BigPositive(x) == x.q > 0 \/ (x.q = 0 /\ x.r > 0)

\* ms // 1000 of a decoder result m * 10^e
MsatDiv1000(x) ==
    IF x.e >= 3 THEN x.m * Pow10(x.e - 3) ELSE (x.m * Pow10(x.e)) \div 1000

\* str(n) of an integer
RECURSIVE NatToStr(_)
NatToStr(n) ==
    IF n < 10 THEN <<Digits[n + 1]>>
    ELSE NatToStr(n \div 10) \o <<Digits[(n % 10) + 1]>>

IntToStr(n) == IF n < 0 THEN <<"-">> \o NatToStr(0 - n) ELSE NatToStr(n)

\* ------------------------------------------------------------------------
\* Events.  A tag is [k, v, json]: its name, its first value (a string) and,
\* for a description tag, what json.loads makes of that value.
\* ------------------------------------------------------------------------
NoJson == [valid |-> FALSE, pubkey |-> <<>>, tags |-> <<>>]

Tag(k, v) == [k |-> k, v |-> v, json |-> NoJson]

\* a description tag whose value is the JSON object {pubkey, tags}
DescTag(pubkey, tags) ==
    [k |-> "description", v |-> <<"{json}">>,
     json |-> [valid |-> TRUE, pubkey |-> pubkey, tags |-> tags]]

\* parse_tag_list(ev, key): the values of the tags named key, in order
RECURSIVE TagValues(_, _)
TagValues(tags, key) ==
    IF tags = <<>> THEN <<>>
    ELSE (IF Head(tags).k = key THEN <<Head(tags).v>> ELSE <<>>)
         \o TagValues(Tail(tags), key)

parse_tag_list(ev, key) == TagValues(ev.tags, key)

\* the same selection, keeping the tag itself (for the description's JSON)
RECURSIVE TagsNamed(_, _)
TagsNamed(tags, key) ==
    IF tags = <<>> THEN <<>>
    ELSE (IF Head(tags).k = key THEN <<Head(tags)>> ELSE <<>>)
         \o TagsNamed(Tail(tags), key)

StartsWithWss(u) == Len(u) >= 1 /\ u[1] = "wss://"

\* ------------------------------------------------------------------------
\* parse_zap
\* ------------------------------------------------------------------------
ResInit ==
    [sats |-> 0, unknown |-> TRUE, zapper_hex |-> <<>>, note_id |-> <<>>,
     recipients_in_desc |-> <<>>, recipients_in_event |-> <<>>, relays |-> <<>>]

\* (variant) the receipt's amount tag is not read
AmountFromTagSkipped(res, ev) == res

\* 1) the receipt's amount tag
\* int(amt[0]) // 1000 of the first amount value, when int accepts it
AmountFromInt(res, n) ==
    IF n.ok THEN [res EXCEPT !.sats = n.q, !.unknown = FALSE] ELSE res

AmountFromValues(res, amt) ==
    IF amt = <<>> THEN res ELSE AmountFromInt(res, ParseInt(amt[1]))

AmountFromTag(res, ev) == AmountFromValues(res, parse_tag_list(ev, "amount"))

\* 2) the receipt's bolt11 tag
\* ms // 1000 of the decoded invoice, when the decoder returns a non-zero value
AmountFromMsat(res, ms) ==
    IF ~ms.none /\ ms.m # 0
    THEN [res EXCEPT !.sats = MsatDiv1000(ms), !.unknown = FALSE]
    ELSE res

AmountFromInvoices(res, bolt) ==
    IF bolt = <<>> THEN res ELSE AmountFromMsat(res, msat_from_bolt11(bolt[1]))

AmountFromBolt(res, ev) ==
    IF res.unknown \/ res.sats = 0
    THEN AmountFromInvoices(res, parse_tag_list(ev, "bolt11"))
    ELSE res

\* the relays of one relays tag that use the relay scheme
RECURSIVE WssOnly(_)
WssOnly(us) ==
    IF us = <<>> THEN <<>>
    ELSE (IF StartsWithWss(Head(us)) THEN <<Head(us)>> ELSE <<>>) \o WssOnly(Tail(us))

\* the amount of the zap request, used only when it is positive
DescAmount(res, ms) ==
    IF ms.ok /\ (res.unknown \/ res.sats = 0) /\ BigPositive(ms)
    THEN [res EXCEPT !.sats = ms.q, !.unknown = FALSE]
    ELSE res

\* one iteration of the loop over the description's tags
DescTagStep(res, tg) ==
    IF tg = <<>> THEN res
    ELSE
    LET t0 == tg[1]
    IN  IF t0 = <<"e">> /\ Len(tg) > 1 /\ res.note_id = <<>>
        THEN [res EXCEPT !.note_id = tg[2]]
        ELSE IF t0 = <<"p">> /\ Len(tg) > 1
        THEN [res EXCEPT !.recipients_in_desc = Append(@, tg[2])]
        ELSE IF t0 = <<"relays">>
        THEN [res EXCEPT !.relays = @ \o WssOnly(Tail(tg))]
        ELSE IF t0 = <<"amount">> /\ Len(tg) > 1
        THEN DescAmount(res, ParseInt(tg[2]))
        ELSE res

RECURSIVE DescTagsLoop(_, _)
DescTagsLoop(res, tags) ==
    IF tags = <<>> THEN res
    ELSE DescTagsLoop(DescTagStep(res, Head(tags)), Tail(tags))

\* 3) the description JSON: payer, note, recipients, relay hints, amount
DescPubkey(res, dj) ==
    IF dj.pubkey # <<>> THEN [res EXCEPT !.zapper_hex = dj.pubkey] ELSE res

FromJson(res, desc) ==
    IF desc = <<>> \/ ~desc[1].json.valid THEN res
    ELSE DescTagsLoop(DescPubkey(res, desc[1].json), desc[1].json.tags)

FromDescription(res, ev) == FromJson(res, TagsNamed(ev.tags, "description"))

\* the recipients named by the receipt's own p and P tags
RecipientsInEvent(res, ev) ==
    [res EXCEPT !.recipients_in_event =
                    parse_tag_list(ev, "p") \o parse_tag_list(ev, "P")]

\* fallback: the payer from the receipt's P tag
ZapperFallback(res, P) ==
    IF res.zapper_hex = <<>> /\ P # <<>> THEN [res EXCEPT !.zapper_hex = P[1]] ELSE res

\* fallback: the zapped note from the receipt's e tag
NoteFallback(res, e) ==
    IF res.note_id = <<>> /\ e # <<>> THEN [res EXCEPT !.note_id = e[1]] ELSE res

parse_zap(ev) ==
    NoteFallback(
        ZapperFallback(
            RecipientsInEvent(
                FromDescription(AmountFromBolt(AmountFromTag(ResInit, ev), ev), ev), ev),
            parse_tag_list(ev, "P")),
        parse_tag_list(ev, "e"))

\* ------------------------------------------------------------------------
\* Configuration and identities
\* ------------------------------------------------------------------------
ME_HEX == <<"ee">>

PkA == <<"a1">>

PkB == <<"b2">>

PkC == <<"c3">>

PkOther == <<"d4">>

R1 == <<"wss://", "r1">>

R2 == <<"wss://", "r2">>

R3 == <<"wss://", "r3">>

RPlain == <<"ws://", "r4">>

\* the configured relay list
RELAYS == <<R1, R2>>

\* MIN_ZAP_SATS when the environment does not set it
DefaultMinZapSats == 50

\* the look-back of the first run's cursor, in seconds
DefaultLookback == 86400

\* the receipt kind
ZapReceiptKind == 9735

\* the configuration of an empty environment
DefaultConfig ==
    [ALLOW_SELF_ZAP |-> FALSE, REPLY_ON_UNKNOWN |-> TRUE, MIN_ZAP_SATS |-> DefaultMinZapSats]

\* the configurations main() is run under
Configs ==
    { DefaultConfig,
      [ALLOW_SELF_ZAP |-> TRUE,  REPLY_ON_UNKNOWN |-> TRUE,  MIN_ZAP_SATS |-> DefaultMinZapSats],
      [ALLOW_SELF_ZAP |-> FALSE, REPLY_ON_UNKNOWN |-> FALSE, MIN_ZAP_SATS |-> DefaultMinZapSats],
      [ALLOW_SELF_ZAP |-> FALSE, REPLY_ON_UNKNOWN |-> TRUE,  MIN_ZAP_SATS |-> 2 * DefaultMinZapSats] }

\* the default template; "<zap>" and "<pray>" stand for its two emoji
THANK_TEMPLATE ==
    << [ph |-> FALSE, s |-> "<zap> Thanks for the "], [ph |-> TRUE, s |-> "sats"],
       [ph |-> FALSE, s |-> " sats"], [ph |-> TRUE, s |-> "who"],
       [ph |-> FALSE, s |-> "! You're currently #"], [ph |-> TRUE, s |-> "rank"],
       [ph |-> FALSE, s |-> " this week. <pray>"] >>

\* ------------------------------------------------------------------------
\* week_key.  The label "<ISO year>-W<ISO week>" names the Monday-based week
\* a timestamp falls in, one label per week; the model keeps the number of
\* that week, counted from the week of the epoch (a Thursday).
\* ------------------------------------------------------------------------
week_key(ts) == (ts + 3 * 86400) \div (7 * 86400)

\* a Monday 00:00:00 UTC
WeekBase == 2817 * (7 * 86400) - 3 * 86400

\* ------------------------------------------------------------------------
\* The zaps table and rank_for_week
\* ------------------------------------------------------------------------
BigAdd(a, b) ==
    [q |-> a.q + b.q + ((a.r + b.r) \div 1000), r |-> (a.r + b.r) % 1000]

BigLess(a, b) == a.q < b.q \/ (a.q = b.q /\ a.r < b.r)

\* sats * 1000
SatsToMsat(sats) == [q |-> sats, r |-> 0]

\* (variant) an insert into a table without the primary key
InsertZapNoKey(rows, rec) == [rows |-> Append(rows, rec), exc |-> "none"]

\* (variant) INSERT OR REPLACE: a row with the same event_id is overwritten
InsertOrReplace(rows, rec) ==
    IF \E i \in 1..Len(rows) : rows[i].event_id = rec.event_id
    THEN [rows |-> [i \in 1..Len(rows) |->
                       IF rows[i].event_id = rec.event_id THEN rec ELSE rows[i]],
          exc  |-> "IntegrityError"]
    ELSE [rows |-> Append(rows, rec), exc |-> "none"]

\* INSERT INTO zaps: event_id is the primary key
InsertZap(rows, rec) ==
    IF \E i \in 1..Len(rows) : rows[i].event_id = rec.event_id
    THEN [rows |-> rows, exc |-> "IntegrityError"]
    ELSE [rows |-> Append(rows, rec), exc |-> "none"]

\* the exceptions the try around the insert catches
InsertExcept(exc) == exc = "IntegrityError"

\* SUM(amount_msat) of one payer's rows of a week
RECURSIVE WeekTotal(_, _, _)
WeekTotal(rows, who, wk) ==
    IF rows = <<>> THEN [q |-> 0, r |-> 0]
    ELSE LET rest == WeekTotal(Tail(rows), who, wk)
         IN  IF Head(rows).week = wk /\ Head(rows).zapper_pubkey = who
             THEN BigAdd(Head(rows).amount_msat, rest)
             ELSE rest

\* GROUP BY zapper_pubkey over the rows WHERE week = wk
WeekPayers(rows, wk) ==
    { rows[i].zapper_pubkey : i \in { j \in 1..Len(rows) : rows[j].week = wk } }

\* (variant) ORDER BY tot, ascending
OrderedAsc(rows, wk, o) ==
    \A i \in 1..(Len(o) - 1) :
        ~BigLess(WeekTotal(rows, o[i + 1], wk), WeekTotal(rows, o[i], wk))

\* ORDER BY tot DESC
OrderedDesc(rows, wk, o) ==
    \A i \in 1..(Len(o) - 1) :
        ~BigLess(WeekTotal(rows, o[i], wk), WeekTotal(rows, o[i + 1], wk))

\* the row orders the query may return: any order of the groups that is
\* descending by total (SQL leaves the order of equal totals open)
RankOrders(rows, wk) ==
    LET G == WeekPayers(rows, wk)
        n == Cardinality(G)
    IN  { o \in [1..n -> G] :
            /\ \A i, j \in 1..n : i # j => o[i] # o[j]
            /\ OrderedDesc(rows, wk, o) }

\* rank_for_week on the rows fetched in the order o
rank_for_week(o, zapper_hex) ==
    IF \E i \in 1..Len(o) : o[i] = zapper_hex
    THEN CHOOSE i \in 1..Len(o) : o[i] = zapper_hex
    ELSE 1

\* ------------------------------------------------------------------------
\* make_thank_text
\* ------------------------------------------------------------------------
HexChunks == {"a1", "b2", "c3", "d4", "ee"}

\* bytes.fromhex(hx) succeeds
IsHex(hx) == \A i \in 1..Len(hx) : hx[i] \in HexChunks

\* hex_to_npub: the bech32 form, or none
hex_to_npub(hx) ==
    IF IsHex(hx) THEN [none |-> FALSE, s |-> <<"npub1">> \o hx]
    ELSE [none |-> TRUE, s |-> <<>>]

\* the text, one string per segment of the template
make_thank_text(sats, unknown, rank, zapper_hex) ==
    LET sats_str == IF unknown THEN <<"<zap>">> ELSE IntToStr(sats)
        npub     == IF zapper_hex # <<>> THEN hex_to_npub(zapper_hex)
                    ELSE [none |-> TRUE, s |-> <<>>]
        who      == IF ~npub.none THEN <<" (nostr:">> \o npub.s \o <<")">> ELSE <<>>
        val(k)   == CASE k = "sats" -> sats_str
                      [] k = "rank" -> IntToStr(rank)
                      [] k = "who"  -> who
                      [] OTHER      -> <<"{", k, "}">>
    IN  [i \in 1..Len(THANK_TEMPLATE) |->
            IF THANK_TEMPLATE[i].ph THEN val(THANK_TEMPLATE[i].s)
            ELSE <<THANK_TEMPLATE[i].s>>]

\* ------------------------------------------------------------------------
\* safe_publish_event.  A use of a connection set is recorded as
\* [temp, relays, opened, published, closed].
\* ------------------------------------------------------------------------
\* (variant) the relay list is used as given
DedupNone(us) == us

RECURSIVE Dedup(_)
Dedup(us) ==
    IF us = <<>> THEN <<>>
    ELSE LET init == Dedup(SubSeq(us, 1, Len(us) - 1))
             u    == us[Len(us)]
         IN  IF \E i \in 1..Len(init) : init[i] = u THEN init ELSE Append(init, u)

InList(u, us) == \E i \in 1..Len(us) : us[i] = u

\* _broadcast_with_relays; fail_at names the call that raises, if any
\* ("interrupt": KeyboardInterrupt during the sleep that follows the open)
_broadcast_with_relays(relays, fail_at) ==
    [temp |-> TRUE, relays |-> relays,
     opened    |-> fail_at # "open",
     published |-> fail_at \notin {"open", "interrupt", "publish"},
     closed    |-> fail_at = "none"]

safe_publish_event(extra_relays, primary_ok, fail_at) ==
    LET main_use == [temp |-> FALSE, relays |-> RELAYS, opened |-> TRUE,
                     published |-> primary_ok, closed |-> FALSE]
    IN  IF ~primary_ok
        THEN <<main_use, _broadcast_with_relays(Dedup(RELAYS \o extra_relays), fail_at)>>
        ELSE LET extra_only == SelectSeq(extra_relays, LAMBDA u : ~InList(u, RELAYS))
             IN  IF extra_only # <<>>
                 THEN <<main_use, _broadcast_with_relays(extra_only, fail_at)>>
                 ELSE <<main_use>>

\* ------------------------------------------------------------------------
\* Events delivered by the relays
\* ------------------------------------------------------------------------
Chars(n) == IntToStr(n)

NoTime == [some |-> FALSE, v |-> 0]

At(t) == [some |-> TRUE, v |-> t]

Event(id, kind, created_at, tags) ==
    [id |-> id, kind |-> kind, created_at |-> created_at, tags |-> tags]

\* timestamps: a day of the week before WeekBase's that lies behind the
\* first run's cursor, and instants of WeekBase's week
T1 == WeekBase - 2 * DefaultLookback

T2 == WeekBase

T3 == WeekBase + 1

\* the wall clock at the first start
NowBase == WeekBase + 2

Note1 == <<"note1">>

P_(who) == << <<"p">>, who >>

E_(note) == << <<"e">>, note >>

Amt_(str) == << <<"amount">>, str >>

E1 == Event("e1", ZapReceiptKind, At(T2),
        << Tag("amount", Chars(100000)),
           DescTag(PkA, << P_(ME_HEX), E_(Note1), << <<"relays">>, R1, R3, RPlain >> >>) >>)

\* the id of E1 delivered again with another payer, amount and timestamp
E1b == Event("e1", ZapReceiptKind, At(T3),
        << Tag("amount", Chars(30000)), DescTag(PkB, << P_(ME_HEX) >>) >>)

E2 == Event("e2", ZapReceiptKind, At(T1),
        << Tag("bolt11", <<"l", "n", "b", "c", "3", "0", "0", "n", "1", "p", "q">>),
           Tag("p", ME_HEX), Tag("P", PkB), Tag("e", Note1) >>)

E3 == Event("e3", ZapReceiptKind, At(T3),
        << DescTag(PkC, << P_(ME_HEX) >>) >>)

E4 == Event("e4", ZapReceiptKind, At(T2),
        << Tag("amount", Chars(100000)), Tag("p", PkOther),
           DescTag(PkA, << P_(PkOther) >>) >>)

E5 == Event("e5", ZapReceiptKind, At(T3),
        << Tag("amount", Chars(70000)), DescTag(ME_HEX, << P_(PkOther) >>) >>)

E6 == Event("e6", ZapReceiptKind, NoTime,
        << Tag("amount", Chars(100000)), DescTag(PkA, << P_(ME_HEX) >>) >>)

E7 == Event("e7", ZapReceiptKind, At(0),
        << Tag("amount", <<"0">>), Tag("P", ME_HEX) >>)

E8 == Event("e8", 1, At(T3), << Tag("p", ME_HEX) >>)

E9 == Event("e9", ZapReceiptKind, At(T2),
        << Tag("amount", <<"-", "5", "0", "0", "0">>), DescTag(PkB, << P_(ME_HEX) >>) >>)

E11 == Event("e11", ZapReceiptKind, At(T2),
        << DescTag(PkB, << P_(ME_HEX), Amt_(Chars(60000)), << <<"relays">>, R1 >> >>) >>)

\* the events the relays may deliver; the pool and the loop refer to an
\* event by its place in this list
EventList == <<E1, E1b, E2, E3, E4, E5, E6, E7, E8, E9, E11>>

Events == 1..Len(EventList)

\* data = parse_zap(ev), tabulated
Parsed == [i \in Events |-> parse_zap(EventList[i])]

\* ------------------------------------------------------------------------
\* State
\* ------------------------------------------------------------------------
VARIABLES
    cfg,          \* the configuration read from the environment
    now,          \* time.time()
    pc,           \* "start", "polling", "crashed" or "exited"
    rm_open,      \* the main RelayManager's connections are open
    since,        \* main()'s local cursor
    state_kv,     \* the state table's row last_since: [has, v]
    zaps,         \* the zaps table, in insertion order
    pool,         \* rm.message_pool: the buffered events
    replies,      \* the reply events handed to safe_publish_event
    pub,          \* the connection sets the last safe_publish_event used
    last,         \* the event the loop handled last, and how it ended
    delivered,    \* events put into the pool so far
    runs,         \* starts of main() so far
    bolt_in,      \* an invoice, by its parts
    bolt_out,     \* msat_from_bolt11 of it
    zap_in,       \* a receipt
    zap_out,      \* parse_zap of it
    rank_out      \* a rank_for_week query on the zaps table and its result

vars == <<cfg, now, pc, rm_open, since, state_kv, zaps, pool, replies, pub, last,
          delivered, runs, bolt_in, bolt_out, zap_in, zap_out, rank_out>>

loopVars == <<cfg, now, pc, rm_open, since, state_kv, zaps, pool, replies, pub, last,
              delivered, runs>>

fnVars == <<bolt_in, bolt_out, zap_in, zap_out, rank_out>>

\* ------------------------------------------------------------------------
\* Bounds of the ingestion loop
\* ------------------------------------------------------------------------
\* events delivered in one behaviour
MaxDelivered == 2

\* events buffered at a time
MaxPool == 2

\* restarts of the process
MaxRuns == 1

\* ------------------------------------------------------------------------
\* The state table
\* ------------------------------------------------------------------------
\* get_state("last_since", default)
get_state(default) == IF state_kv.has THEN state_kv.v ELSE default

\* set_state("last_since", v): the value is stored as str(v)
set_state(v) == [has |-> TRUE, v |-> IntToStr(v)]

\* int(s) of a stored cursor
StrToInt(s) == LET n == ParseInt(s) IN n.q * 1000 + n.r

\* ------------------------------------------------------------------------
\* main(): the steps of the loop body
\* ------------------------------------------------------------------------
InSeq(x, xs) == \E i \in 1..Len(xs) : xs[i] = x

\* (variant) any receipt that names a recipient is accepted
AcceptedAnyRecipient(data) ==
    data.recipients_in_desc # <<>> \/ data.recipients_in_event # <<>>

\* the recipient test of the loop
Accepted(data) ==
    LET match_desc == InSeq(ME_HEX, data.recipients_in_desc)
        match_ev   == InSeq(ME_HEX, data.recipients_in_event)
        match_self == cfg.ALLOW_SELF_ZAP /\ data.zapper_hex = ME_HEX
    IN  match_desc \/ match_ev \/ match_self

\* the row the loop inserts for an event
ZapRow(ev, data) ==
    [event_id |-> ev.id, zapper_pubkey |-> data.zapper_hex, note_id |-> data.note_id,
     amount_msat |-> SatsToMsat(data.sats), created_at |-> ev.created_at.v,
     week |-> week_key(ev.created_at.v)]

\* (variant) the cursor is written without comparing it
CursorAlways(created_at, cur) == created_at # 0

\* the test guarding the cursor write
CursorAdvances(created_at, cur) == created_at # 0 /\ created_at > cur

\* (variant) only a known amount at or above the minimum is answered
ReplyKnownOnly(sats, unknown) == sats >= cfg.MIN_ZAP_SATS

should_reply(sats, unknown) ==
    sats >= cfg.MIN_ZAP_SATS \/ (unknown /\ cfg.REPLY_ON_UNKNOWN)

\* the reply event of the loop
Reply(ev, data, rank) ==
    LET zapper_hex == IF data.zapper_hex # <<>> THEN data.zapper_hex ELSE <<"unknown">>
        ptag == IF zapper_hex # <<>> /\ zapper_hex # <<"unknown">>
                THEN << << <<"p">>, zapper_hex >> >> ELSE <<>>
        etag == IF data.note_id # <<>>
                THEN << << <<"e">>, data.note_id, <<>>, <<"reply">> >> >> ELSE <<>>
    IN  [for     |-> ev.id,
         content |-> make_thank_text(data.sats, data.unknown, rank, zapper_hex),
         tags    |-> ptag \o etag]

NoLast == [ev |-> 0, stage |-> "none", exc |-> "none", conflict |-> FALSE]

Outcome(e, stage, exc, conflict) ==
    [ev |-> e, stage |-> stage, exc |-> exc, conflict |-> conflict]

\* the calls of _broadcast_with_relays that may raise
FailPoints == {"none", "open", "publish", "close"}

\* what safe_publish_event may do, over the calls that may fail
PublishRuns(extra_relays) ==
    { safe_publish_event(extra_relays, primary_ok, fail_at) :
          primary_ok \in BOOLEAN, fail_at \in FailPoints }

\* safe_publish_event with a KeyboardInterrupt inside a temporary connection
\* set: no except clause of it catches the interrupt
InterruptedRuns(extra_relays) ==
    { run \in { safe_publish_event(extra_relays, primary_ok, "interrupt") :
                    primary_ok \in BOOLEAN } : Len(run) > 1 }

\* (variant) the last failure of a publish is raised again
AfterPublishRaising(run) ==
    IF \E i \in 1..Len(run) : ~run[i].published THEN "crashed" ELSE "polling"

\* where the loop stands when safe_publish_event has returned: each of its
\* publishes is inside a try whose except clause catches Exception
AfterPublish(run) == "polling"

\* (variant) the rank is read from the table as it was before the insert
TableBeforeInsert(committed) == zaps

\* the table rank_for_week reads: the insert has been committed by then
TableAtRank(committed) == committed

\* the event is dropped by a continue before anything is written
Skipped(e, stage) ==
    /\ last' = Outcome(e, stage, "none", FALSE)
    /\ UNCHANGED <<pc, rm_open, since, state_kv, zaps, replies, pub>>

\* an exception leaves the loop: the finally clause closes the connections
Raised(e, exc, rows, cur, conflict) ==
    /\ last' = Outcome(e, "raised", exc, conflict)
    /\ pc' = "crashed"
    /\ rm_open' = FALSE
    /\ zaps' = rows
    /\ since' = cur
    /\ UNCHANGED <<state_kv, replies, pub>>

\* KeyboardInterrupt inside the loop body: the except clause of main() takes
\* it and the finally clause closes the main connections
Interrupted(e, conflict) ==
    /\ last' = Outcome(e, "interrupted", "KeyboardInterrupt", conflict)
    /\ pc' = "exited"
    /\ rm_open' = FALSE

\* the reply is built from the rank and handed to safe_publish_event
Published(e, data, rank, run) ==
    /\ replies' = Append(replies, Reply(EventList[e], data, rank))
    /\ pub' = run

\* the week the rank is asked for
RankWeek(created_at) == week_key(IF created_at # 0 THEN created_at ELSE now)

\* the payer the rank is asked for
RankWho(data) == IF data.zapper_hex # <<>> THEN data.zapper_hex ELSE <<"unknown">>

\* from the reply decision to the end of the loop body
ReplyStep(e, data, rows, cur, kv, conflict) ==
    /\ zaps' = rows
    /\ since' = cur
    /\ state_kv' = kv
    /\ IF ~should_reply(data.sats, data.unknown)
       THEN /\ last' = Outcome(e, "no_reply", "none", conflict)
            /\ UNCHANGED <<pc, rm_open, replies, pub>>
       ELSE \E o \in RankOrders(TableAtRank(rows), RankWeek(EventList[e].created_at.v)) :
                \/ \E run \in PublishRuns(data.relays) :
                       /\ Published(e, data, rank_for_week(o, RankWho(data)), run)
                       /\ last' = Outcome(e, "replied", "none", conflict)
                       /\ pc' = AfterPublish(run)
                       /\ rm_open' = (AfterPublish(run) = "polling")
                \/ \E run \in InterruptedRuns(data.relays) :
                       /\ Published(e, data, rank_for_week(o, RankWho(data)), run)
                       /\ Interrupted(e, conflict)

\* the cursor write (set_state may fail), then the reply
CursorStep(e, data, rows, conflict) ==
    LET created_at == EventList[e].created_at.v
    IN  IF CursorAdvances(created_at, since)
        THEN \/ Raised(e, "OperationalError", rows, created_at, conflict)
             \/ ReplyStep(e, data, rows, created_at, set_state(created_at), conflict)
        ELSE ReplyStep(e, data, rows, since, state_kv, conflict)

\* the insert (which may fail in the storage engine), then the cursor
InsertStep(e, data) ==
    \/ Raised(e, "OperationalError", zaps, since, FALSE)
    \/ LET ins == InsertZap(zaps, ZapRow(EventList[e], data))
       IN  IF ins.exc # "none" /\ ~InsertExcept(ins.exc)
           THEN Raised(e, ins.exc, ins.rows, since, TRUE)
           ELSE \/ CursorStep(e, data, ins.rows, ins.exc # "none")
                \/ /\ Interrupted(e, ins.exc # "none")
                   /\ zaps' = ins.rows
                   /\ UNCHANGED <<since, state_kv, replies, pub>>

\* the body of the inner while loop for one buffered event
HandleEvent(e) ==
    LET ev   == EventList[e]
        data == Parsed[e]
    IN  IF ev.kind # ZapReceiptKind THEN Skipped(e, "skipped_kind")
        ELSE IF ~Accepted(data) THEN Skipped(e, "filtered")
        ELSE IF ~ev.created_at.some THEN Raised(e, "TypeError", zaps, since, FALSE)
        ELSE InsertStep(e, data)

\* ------------------------------------------------------------------------
\* Actions of the listener
\* ------------------------------------------------------------------------
BoltIdle == [cur |-> <<"b", "c">>, amt |-> <<>>, mult |-> <<>>, data |-> <<"p">>]

FnIdle ==
    /\ bolt_in = BoltIdle
    /\ bolt_out = [done |-> FALSE, res |-> NoneMsat]
    /\ zap_in = E8
    /\ zap_out = [done |-> FALSE, res |-> ResInit]
    /\ rank_out = [done |-> FALSE, who |-> <<>>, wk |-> 0, rank |-> 0]

LoopInit ==
    /\ now = NowBase
    /\ pc = "start"
    /\ rm_open = FALSE
    /\ since = 0
    /\ state_kv = [has |-> FALSE, v |-> <<>>]
    /\ zaps = <<>>
    /\ pool = <<>>
    /\ replies = <<>>
    /\ pub = <<>>
    /\ last = NoLast
    /\ delivered = 0
    /\ runs = 0

Init ==
    /\ cfg \in Configs
    /\ LoopInit
    /\ FnIdle

\* main() up to the loop: read the cursor, connect and subscribe
Start ==
    /\ pc = "start"
    /\ since' = StrToInt(get_state(IntToStr(now - DefaultLookback)))
    /\ rm_open' = TRUE
    /\ pc' = "polling"
    /\ UNCHANGED <<cfg, now, state_kv, zaps, pool, replies, pub, last, delivered, runs>>
    /\ UNCHANGED fnVars

\* a relay delivers an event into the message pool
Receive(ev) ==
    /\ pc = "polling"
    /\ rm_open
    /\ delivered < MaxDelivered
    /\ Len(pool) < MaxPool
    /\ pool' = Append(pool, ev)
    /\ delivered' = delivered + 1
    /\ UNCHANGED <<cfg, now, pc, rm_open, since, state_kv, zaps, replies, pub, last, runs>>
    /\ UNCHANGED fnVars

\* the loop takes the next buffered event and handles it
Process ==
    /\ pc = "polling"
    /\ pool # <<>>
    /\ pool' = Tail(pool)
    /\ HandleEvent(Head(pool))
    /\ UNCHANGED <<cfg, now, delivered, runs>>
    /\ UNCHANGED fnVars

\* KeyboardInterrupt between two polls: the finally clause closes the connections
Interrupt ==
    /\ pc = "polling"
    /\ pc' = "exited"
    /\ rm_open' = FALSE
    /\ UNCHANGED <<cfg, now, since, state_kv, zaps, pool, replies, pub, last, delivered, runs>>
    /\ UNCHANGED fnVars

\* the process is started again, a week later in the model; the message pool
\* of the old process is gone
Relaunch ==
    /\ pc \in {"crashed", "exited"}
    /\ runs < MaxRuns
    /\ runs' = runs + 1
    /\ pc' = "start"
    /\ rm_open' = FALSE
    /\ pool' = <<>>
    /\ now' = now + 7 * 86400
    /\ UNCHANGED <<cfg, since, state_kv, zaps, replies, pub, last, delivered>>
    /\ UNCHANGED fnVars

\* KeyboardInterrupt before the try statement of main() is entered: nothing
\* closes the connections when open_connections has already run
InterruptStart ==
    /\ pc = "start"
    /\ pc' = "exited"
    /\ rm_open' \in BOOLEAN
    /\ UNCHANGED <<cfg, now, since, state_kv, zaps, pool, replies, pub, last, delivered, runs>>
    /\ UNCHANGED fnVars

Next ==
    \/ Start
    \/ InterruptStart
    \/ \E ev \in Events : Receive(ev)
    \/ Process
    \/ Interrupt
    \/ Relaunch

Spec == Init /\ [][Next]_vars

\* ------------------------------------------------------------------------
\* msat_from_bolt11 on invoices ln<currency><amount><multiplier>1<data>
\* ------------------------------------------------------------------------
AmtAlphabet == {"0", "1", "2", "3", "4", "5", "."}

SeqsUpTo(S, n) == UNION { [1..k -> S] : k \in 0..n }

BoltInputs(n) ==
    [cur  : {<<"b", "c">>, <<"T", "B">>},
     amt  : SeqsUpTo(AmtAlphabet, n),
     mult : {<<>>, <<"m">>, <<"u">>, <<"n">>, <<"p">>},
     data : {<<"p", "q">>}]

\* the invoice string
Invoice(b) == <<"l", "n">> \o b.cur \o b.amt \o b.mult \o <<"1">> \o b.data

InitBolt ==
    /\ cfg = DefaultConfig
    /\ LoopInit
    /\ bolt_in \in BoltInputs(MaxAmtLen)
    /\ bolt_out = [done |-> FALSE, res |-> NoneMsat]
    /\ zap_in = E8
    /\ zap_out = [done |-> FALSE, res |-> ResInit]
    /\ rank_out = [done |-> FALSE, who |-> <<>>, wk |-> 0, rank |-> 0]

Decode ==
    /\ ~bolt_out.done
    /\ bolt_out' = [done |-> TRUE, res |-> msat_from_bolt11(Invoice(bolt_in))]
    /\ UNCHANGED <<bolt_in, zap_in, zap_out, rank_out>>
    /\ UNCHANGED loopVars

NextBolt == Decode

SpecBolt == InitBolt /\ [][NextBolt]_vars

\* ------------------------------------------------------------------------
\* parse_zap on receipts carrying every combination of the three amounts
\* ------------------------------------------------------------------------
NoStr == <<"<absent>">>

AmountTagValues ==
    { NoStr, <<"a", "b", "c">>, <<"0">>, <<"-", "5", "0", "0", "0">>, Chars(500),
      Chars(5000), Chars(20000000) \o <<"0", "0", "0">> }

Bolt11TagValues ==
    { NoStr,
      <<"l", "n", "b", "c", "1", "p", "q">>,
      <<"l", "n", "b", "c", "0", "n", "1", "p", "q">>,
      <<"l", "n", "b", "c", "3", "0", "0", "n", "1", "p", "q">>,
      <<"l", "n", "b", "c", "2", "0", "u", "1", "p", "q">>,
      <<"l", "n", "b", "c", "-", "5", "u", "1", "p", "q">>,
      <<"l", "n", "b", "c", "2", "0", "0", "m", "1", "p", "q">> }

DescAmountValues ==
    { NoStr, <<"a", "b", "c">>, <<"0">>, <<"-", "3", "0", "0", "0">>, Chars(700),
      Chars(3000), Chars(20000000) \o <<"0", "0", "0">> }

\* a receipt to ME_HEX from PkA with the given amount sources
AmountEvent(a, b, d) ==
    Event("ea", ZapReceiptKind, At(T2),
          (IF a = NoStr THEN <<>> ELSE << Tag("amount", a) >>)
          \o (IF b = NoStr THEN <<>> ELSE << Tag("bolt11", b) >>)
          \o << DescTag(PkA, << P_(ME_HEX) >>
                             \o (IF d = NoStr THEN <<>> ELSE << Amt_(d) >>)) >>)

InitParse ==
    /\ cfg = DefaultConfig
    /\ LoopInit
    /\ bolt_in = BoltIdle
    /\ bolt_out = [done |-> FALSE, res |-> NoneMsat]
    /\ \E a \in AmountTagValues, b \in Bolt11TagValues, d \in DescAmountValues :
           zap_in = AmountEvent(a, b, d)
    /\ zap_out = [done |-> FALSE, res |-> ResInit]
    /\ rank_out = [done |-> FALSE, who |-> <<>>, wk |-> 0, rank |-> 0]

Parse ==
    /\ ~zap_out.done
    /\ zap_out' = [done |-> TRUE, res |-> parse_zap(zap_in)]
    /\ UNCHANGED <<bolt_in, bolt_out, zap_in, rank_out>>
    /\ UNCHANGED loopVars

NextParse == Parse

SpecParse == InitParse /\ [][NextParse]_vars

\* ------------------------------------------------------------------------
\* rank_for_week on zaps tables of a few rows
\* ------------------------------------------------------------------------
RankPayers == {PkA, PkB, PkC}

RankWeeks == {week_key(T1), week_key(T2)}

RankSats == {100, 300, 500}

\* the i-th row inserted: event ids are unique
RankRow(i, who, sats, wk) ==
    [event_id |-> <<"r", i>>, zapper_pubkey |-> who, note_id |-> <<>>,
     amount_msat |-> SatsToMsat(sats),
     created_at |-> IF wk = week_key(T1) THEN T1 ELSE T2, week |-> wk]

\* a row of the queried week with any amount, or a large row of another week
RankRowChoices ==
    (RankPayers \X RankSats \X {week_key(T2)})
        \cup (RankPayers \X {5 * 100} \X (RankWeeks \ {week_key(T2)}))

RankTables(n) ==
    UNION { { [i \in 1..k |-> RankRow(i, f[i][1], f[i][2], f[i][3])] :
                f \in [1..k -> RankRowChoices] } : k \in 0..n }

InitRank ==
    /\ cfg = DefaultConfig
    /\ now = NowBase
    /\ pc = "start"
    /\ rm_open = FALSE
    /\ since = 0
    /\ state_kv = [has |-> FALSE, v |-> <<>>]
    /\ zaps \in RankTables(MaxRows)
    /\ pool = <<>>
    /\ replies = <<>>
    /\ pub = <<>>
    /\ last = NoLast
    /\ delivered = 0
    /\ runs = 0
    /\ FnIdle

RankQuery ==
    /\ ~rank_out.done
    /\ \E who \in RankPayers \cup {<<"unknown">>}, wk \in {week_key(T2)} :
         \E o \in RankOrders(zaps, wk) :
           rank_out' = [done |-> TRUE, who |-> who, wk |-> wk,
                        rank |-> rank_for_week(o, who)]
    /\ UNCHANGED <<bolt_in, bolt_out, zap_in, zap_out>>
    /\ UNCHANGED loopVars

NextRank == RankQuery

SpecRank == InitRank /\ [][NextRank]_vars

\* ========================================================================
\* Properties
\* ========================================================================
\* what the three amount sources of a receipt carry
CandTag(ev) ==
    LET amt == parse_tag_list(ev, "amount")
    IN  IF amt = <<>> THEN NoInt ELSE ParseInt(amt[1])

CandBolt(ev) ==
    LET bolt == parse_tag_list(ev, "bolt11")
    IN  IF bolt = <<>> THEN NoneMsat ELSE msat_from_bolt11(bolt[1])

DescTags(ev) ==
    LET desc == TagsNamed(ev.tags, "description")
    IN  IF desc = <<>> \/ ~desc[1].json.valid THEN <<>> ELSE desc[1].json.tags

CandDesc(ev) ==
    LET amts == SelectSeq(DescTags(ev), LAMBDA tg : Len(tg) > 1 /\ tg[1] = <<"amount">>)
    IN  IF amts = <<>> THEN NoInt ELSE ParseInt(amts[1][2])

\* a source yields a positive numeric value
TagPositive(ev) == CandTag(ev).ok /\ BigPositive(CandTag(ev))

BoltPositive(ev) == ~CandBolt(ev).none /\ CandBolt(ev).m > 0

DescPositive(ev) == CandDesc(ev).ok /\ BigPositive(CandDesc(ev))

NoSourcePositive(ev) == ~TagPositive(ev) /\ ~BoltPositive(ev) /\ ~DescPositive(ev)

\* the sanity ceiling of the design, in sats
SanityCeilingSats == 10 * 1000 * 1000

\* the recipients a receipt names: the request's p tags, its own p and P tags
NamedRecipients(ev) ==
    { tg[2] : tg \in { t \in { DescTags(ev)[i] : i \in 1..Len(DescTags(ev)) } :
                          Len(t) > 1 /\ t[1] = <<"p">> } }
    \cup { t.v : t \in { ev.tags[i] : i \in { j \in 1..Len(ev.tags) :
                                                ev.tags[j].k \in {"p", "P"} } } }

\* the loop dequeues and handles the event at the head of the pool
Handling == pc = "polling" /\ pool # <<>> /\ pool' = Tail(pool)

\* the rows of the zaps table with a given event_id
RowsOf(id) == { i \in 1..Len(zaps) : zaps[i].event_id = id }

\* the value of the persisted cursor
Persisted == StrToInt(state_kv.v)

\* C1: Dedup idempotence.  In every reachable state the zaps table holds at
\* most one row per event_id; after the loop handled a receipt whose
\* event_id was already stored there is exactly one row for it, and no
\* IntegrityError ever leaves the loop body.
C1_DedupIdempotent ==
    /\ \A i, j \in 1..Len(zaps) : zaps[i].event_id = zaps[j].event_id => i = j
    /\ last.exc # "IntegrityError"
    /\ last.conflict => Cardinality(RowsOf(EventList[last.ev].id)) = 1

\* a redelivered, already stored receipt was handled through to its reply
C1_Witness ==
    /\ last.conflict
    /\ last.stage = "replied"
    /\ Cardinality(RowsOf(EventList[last.ev].id)) = 1

\* C2: Monotonic cursor.  In every step the persisted last_since is kept once
\* written and never decreases; it changes only in a step that handles a
\* receipt whose created_at is strictly greater than the cursor (the loop's
\* and the persisted one), and it then is exactly that created_at.
C2_MonotonicCursor ==
    [][ /\ state_kv.has =>
             state_kv'.has /\ StrToInt(state_kv'.v) >= StrToInt(state_kv.v)
        /\ state_kv' # state_kv =>
             /\ Handling
             /\ LET ts == EventList[Head(pool)].created_at
                IN  /\ ts.some
                    /\ ts.v > since
                    /\ state_kv.has => ts.v > StrToInt(state_kv.v)
                    /\ state_kv' = [has |-> TRUE, v |-> IntToStr(ts.v)]
                    /\ StrToInt(state_kv'.v) = ts.v ]_vars

\* after a restart, a receipt older than the persisted cursor was handled
\* and the cursor kept the greater value
C2_Witness ==
    /\ runs = 1
    /\ pc = "polling"
    /\ state_kv.has
    /\ last.stage = "replied"
    /\ EventList[last.ev].created_at.v < Persisted
    /\ Persisted = T3
    /\ Len(zaps) = 2

\* C3: Recipient filtering.  With self-zaps disabled, a step that handles a
\* receipt none of whose recipient tags is the configured identity leaves
\* the zaps table, the replies and the publish record unchanged.
C3_RecipientFilter ==
    [][ (Handling /\ ~cfg.ALLOW_SELF_ZAP
           /\ EventList[Head(pool)].kind = ZapReceiptKind
           /\ ME_HEX \notin NamedRecipients(EventList[Head(pool)]))
        => (zaps' = zaps /\ replies' = replies /\ pub' = pub
            /\ state_kv' = state_kv) ]_vars

\* a receipt addressed to another identity was handled with self-zaps
\* disabled, after a receipt addressed to the identity had been stored
C3_Witness ==
    /\ ~cfg.ALLOW_SELF_ZAP
    /\ last.stage = "filtered"
    /\ EventList[last.ev].kind = ZapReceiptKind
    /\ NamedRecipients(EventList[last.ev]) = {PkOther}
    /\ Len(zaps) = 1
    /\ RowsOf(EventList[last.ev].id) = {}

\* C4: Sanity ceiling (as claimed).  No resolved amount exceeds the ceiling
\* of 10,000,000 sats.
C4_SanityCeiling == zap_out.done => zap_out.res.sats <= SanityCeilingSats

\* C5: Amount priority (as claimed, request first).  When the amount of the
\* description is positive and under the ceiling, it is the resolved amount.
C5_RequestFirst ==
    (zap_out.done /\ DescPositive(zap_in) /\ CandDesc(zap_in).q <= SanityCeilingSats)
    => (zap_out.res.sats = CandDesc(zap_in).q /\ ~zap_out.res.unknown)

\* the receipt's amount tag, resp. its bolt11 tag, decides the amount
TagDecides(ev) == CandTag(ev).ok /\ CandTag(ev).q # 0

BoltDecides(ev) ==
    ~TagDecides(ev) /\ ~CandBolt(ev).none /\ CandBolt(ev).m # 0
    /\ MsatDiv1000(CandBolt(ev)) # 0

\* C5 (amended): Amount priority is receipt first.  A numeric receipt amount
\* tag worth a non-zero number of sats is the resolved amount whatever the
\* other two sources carry; otherwise a bolt11 amount worth a non-zero number
\* of sats is; the description's amount is used only when neither decides.
C5_ReceiptFirst ==
    zap_out.done =>
        /\ TagDecides(zap_in) =>
             zap_out.res.sats = CandTag(zap_in).q /\ ~zap_out.res.unknown
        /\ BoltDecides(zap_in) =>
             zap_out.res.sats = MsatDiv1000(CandBolt(zap_in)) /\ ~zap_out.res.unknown
        /\ (~TagDecides(zap_in) /\ ~BoltDecides(zap_in) /\ DescPositive(zap_in)) =>
             zap_out.res.sats = CandDesc(zap_in).q /\ ~zap_out.res.unknown

\* the receipt's amount tag won over a different, valid description amount
\* and a valid bolt11 amount
C5_Witness ==
    /\ zap_out.done
    /\ TagDecides(zap_in)
    /\ DescPositive(zap_in)
    /\ BoltPositive(zap_in)
    /\ CandDesc(zap_in).q = 3
    /\ zap_out.res.sats = 5

\* C6: Filtering of non-positive candidates (as claimed).  The resolved
\* amount is unknown, with sats = 0, exactly when no source yields a
\* positive numeric value.
C6_UnknownIffNoPositive ==
    zap_out.done =>
        /\ zap_out.res.unknown <=> NoSourcePositive(zap_in)
        /\ zap_out.res.unknown => zap_out.res.sats = 0

\* C7: Unknown-amount acknowledgement (as claimed).  When the loop body ran
\* to its end for an accepted receipt none of whose sources yields a positive
\* numeric value, and REPLY_ON_UNKNOWN is set, a reply was published whose
\* amount placeholder holds the glyph, and the stored amount is 0.
C7_UnknownAcknowledged ==
    (/\ last.stage \in {"no_reply", "replied"}
     /\ cfg.REPLY_ON_UNKNOWN
     /\ NoSourcePositive(EventList[last.ev]))
    => /\ last.stage = "replied"
       /\ replies[Len(replies)].content[2] = <<"<zap>">>
       /\ \A i \in RowsOf(EventList[last.ev].id) : zaps[i].amount_msat = SatsToMsat(0)

\* the invoices the decoder's contract covers: a non-negative decimal amount
\* with or without multiplier, or no amount at all
ValidAmount(amt) ==
    LET dot == Find(amt, ".")
        ip  == IF dot = 0 THEN amt ELSE SubSeq(amt, 1, dot - 1)
        fp  == IF dot = 0 THEN <<"0">> ELSE SubSeq(amt, dot + 1, Len(amt))
    IN  ip # <<>> /\ fp # <<>> /\ AllDigits(ip) /\ AllDigits(fp)

InContract(b) == ValidAmount(b.amt) \/ (b.amt = <<>> /\ b.mult = <<>>)

\* floor(amount * factor) in msat; none for an invoice without amount
ExpectedMsat(b) ==
    IF b.amt = <<>> THEN NoneMsat
    ELSE ScaleToMsat(UnsignedDecimal(b.amt), SufExp(IF b.mult = <<>> THEN "" ELSE b.mult[1]))

\* C8: Amount Decoder result (as claimed).  For every invoice
\* ln<currency><amount><multiplier>1<data> the decoder returns
\* floor(amount * factor) msat, and none when there is no amount.
C8_DecoderResult ==
    (bolt_out.done /\ InContract(bolt_in))
    => NormMsat(bolt_out.res) = NormMsat(ExpectedMsat(bolt_in))

\* the payers of a week whose total is strictly greater than who's
Greater(who, wk) ==
    { p \in WeekPayers(zaps, wk) :
          BigLess(WeekTotal(zaps, who, wk), WeekTotal(zaps, p, wk)) }

DistinctTotals(wk) ==
    \A p, q \in WeekPayers(zaps, wk) :
        p # q => WeekTotal(zaps, p, wk) # WeekTotal(zaps, q, wk)

\* C9: Ranking.  For a payer with rows in the week, and distinct totals, the
\* rank is 1 + the number of payers of that week with a strictly greater
\* total (rows of other weeks do not count); with equal totals it lies
\* between that and the number of payers with a total at least as great;
\* a payer without a row in the week gets rank 1.
C9_RankIsPosition ==
    rank_out.done =>
        LET who == rank_out.who
            wk  == rank_out.wk
            G   == WeekPayers(zaps, wk)
        IN  /\ who \notin G => rank_out.rank = 1
            /\ (who \in G /\ DistinctTotals(wk)) =>
                   rank_out.rank = 1 + Cardinality(Greater(who, wk))
            /\ who \in G =>
                   /\ rank_out.rank >= 1 + Cardinality(Greater(who, wk))
                   /\ rank_out.rank <=
                          Cardinality({ p \in G : ~BigLess(WeekTotal(zaps, p, wk),
                                                           WeekTotal(zaps, who, wk)) })

\* totals {A: 500, B: 300, C: 100} in the week: C is ranked 3
C9_Witness ==
    /\ rank_out.done
    /\ rank_out.who = PkC
    /\ rank_out.rank = 3
    /\ WeekTotal(zaps, PkA, rank_out.wk) = SatsToMsat(500)
    /\ WeekTotal(zaps, PkB, rank_out.wk) = SatsToMsat(300)
    /\ WeekTotal(zaps, PkC, rank_out.wk) = SatsToMsat(100)

\* C10: Per-receipt error isolation (as claimed).  No error raised while a
\* receipt is handled ends the ingestion loop.
C10_ErrorIsolation == ~(pc = "crashed")

\* the elements of a sequence
Range(xs) == { xs[i] : i \in 1..Len(xs) }

NoRepeat(xs) == \A i, j \in 1..Len(xs) : xs[i] = xs[j] => i = j

\* the relays hinted by the payment request of the receipt handled last
Hinted == Range(Parsed[last.ev].relays)

\* C11: Publish fallback.  After a reply was handed to safe_publish_event, the
\* first connection set used is the open main one; when the publish through
\* it failed there is exactly one more, a temporary set holding each of
\* the configured and the hinted relays once; when it succeeded no temporary
\* set holds a configured relay.
C11_PublishFallback ==
    last.stage = "replied" =>
        /\ Len(pub) >= 1
        /\ ~pub[1].temp
        /\ pub[1].relays = RELAYS
        /\ ~pub[1].published =>
               /\ Len(pub) = 2
               /\ pub[2].temp
               /\ Range(pub[2].relays) = Range(RELAYS) \cup Hinted
               /\ NoRepeat(pub[2].relays)
        /\ pub[1].published =>
               \A i \in 2..Len(pub) : Range(pub[i].relays) \cap Range(RELAYS) = {}

\* the primary publish failed for a receipt hinting a configured and a new
\* relay, and the retry went through a temporary set of three relays
C11_Witness ==
    /\ last.stage = "replied"
    /\ ~pub[1].published
    /\ Hinted = {R1, R3}
    /\ Len(pub) = 2
    /\ pub[2].published
    /\ Len(pub[2].relays) = 3

\* the hinted relays that are not configured
ExtraOnly == Hinted \ Range(RELAYS)

\* C12: Additive extra-relay broadcast (as claimed).  After a reply whose
\* payment request hints a relay that is not configured, one of the
\* temporary connection sets used holds exactly the extra relays, whether
\* the primary publish succeeded or failed.
C12_AdditiveExtraBroadcast ==
    (last.stage = "replied" /\ ExtraOnly # {}) =>
        \E i \in 2..Len(pub) : pub[i].temp /\ Range(pub[i].relays) = ExtraOnly

\* a connection set on which the publish did not go through
Failed(use) == ~use.published

\* C13: Publish failures are swallowed.  In every step in which the loop
\* hands a reply to safe_publish_event and that call returns, whichever of
\* the primary publish, the fallback and the extra broadcast failed, the loop
\* is polling afterwards with its main connections open and the events
\* buffered behind the handled one still in the pool.
C13_PublishFailuresSwallowed ==
    [][ (Handling /\ last'.stage = "replied" /\ Len(replies') = Len(replies) + 1)
        => (pc' = "polling" /\ rm_open' /\ pool' = Tail(pool)) ]_vars

\* the primary publish and the fallback both failed, and the loop is polling
\* with the next event buffered
C13_Witness ==
    /\ last.stage = "replied"
    /\ Len(pub) = 2
    /\ Failed(pub[1])
    /\ Failed(pub[2])
    /\ pc = "polling"
    /\ rm_open
    /\ pool # <<>>

\* C14: Orderly shutdown (as claimed).  Whenever the process has ended on an
\* interrupt, its main relay connections have been closed.
C14_OrderlyShutdown == pc = "exited" => ~rm_open

\* C15: Record immutability.  In every step each row of the zaps table stays
\* in place with all its fields; rows are only appended.
C15_RecordImmutable ==
    [][ /\ Len(zaps') >= Len(zaps)
        /\ \A i \in 1..Len(zaps) : zaps'[i] = zaps[i] ]_vars

\* the id of a stored receipt was delivered again with another payer, amount
\* and timestamp, and the row still carries the fields of the first delivery
C15_Witness ==
    /\ last.conflict
    /\ last.ev = 2
    /\ last.stage \in {"no_reply", "replied"}
    /\ Len(zaps) = 1
    /\ zaps[1] = ZapRow(E1, Parsed[1])
    /\ zaps[1] # ZapRow(E1b, Parsed[2])

\* the loop handles an accepted receipt
HandlingAccepted ==
    /\ Handling
    /\ EventList[Head(pool)].kind = ZapReceiptKind
    /\ Accepted(Parsed[Head(pool)])

\* the condition under which a receipt is to be answered
ToBeAnswered(data) ==
    data.sats >= cfg.MIN_ZAP_SATS \/ (data.unknown /\ cfg.REPLY_ON_UNKNOWN)

\* the loop body ran to its end (no exception, no interrupt)
RanThrough(stage) == stage \in {"no_reply", "replied"}

\* C16: Reply decision.  In a step that handles an accepted receipt, a reply
\* is handed to the publisher only if the resolved sats reach the minimum
\* or the amount is unknown and unknowns are acknowledged; when the loop
\* body runs to its end the reply is attempted exactly in that case, and
\* when it is not, nothing is published, yet the record is in the table
\* and the cursor has been moved up to the receipt's created_at.
C16_ReplyDecision ==
    [][ HandlingAccepted =>
          LET e    == Head(pool)
              data == Parsed[e]
              ts   == EventList[e].created_at.v
          IN  /\ replies' # replies => ToBeAnswered(data)
              /\ RanThrough(last'.stage) =>
                    /\ ToBeAnswered(data) <=>
                           (Len(replies') = Len(replies) + 1 /\ last'.stage = "replied")
                    /\ ~ToBeAnswered(data) =>
                           /\ replies' = replies
                           /\ pub' = pub
                           /\ \E i \in 1..Len(zaps') : zaps'[i].event_id = EventList[e].id
                           /\ since' >= ts
                           /\ ts > since =>
                                  state_kv' = [has |-> TRUE, v |-> IntToStr(ts)] ]_vars

\* a receipt below the minimum was handled: no reply, but its row is stored
\* and the cursor stands at its created_at
C16_Witness ==
    /\ last.stage = "no_reply"
    /\ ~last.conflict
    /\ ~ToBeAnswered(Parsed[last.ev])
    /\ replies = <<>>
    /\ RowsOf(EventList[last.ev].id) # {}
    /\ state_kv.has
    /\ Persisted = EventList[last.ev].created_at.v

\* the ranks rank_for_week can return for a payer over a table
RanksOver(rows, who, wk) == { rank_for_week(o, who) : o \in RankOrders(rows, wk) }

\* the rank a reply shows
RankShown(reply) == reply.content[6]

\* C17: Commit before rank.  In a step in which the loop hands a reply for a
\* receipt to the publisher, the table the step leaves holds the receipt's
\* row, the cursor is not behind the receipt, and the rank shown in the
\* reply is the payer's rank over that table; when the row was inserted
\* in this step, the payer's total of the receipt's week in that table is
\* the earlier total plus the receipt's own amount.
C17_CommitBeforeRank ==
    [][ (HandlingAccepted /\ Len(replies') = Len(replies) + 1) =>
          LET e    == Head(pool)
              data == Parsed[e]
              ts   == EventList[e].created_at.v
              who  == IF data.zapper_hex # <<>> THEN data.zapper_hex ELSE <<"unknown">>
              wk   == week_key(IF ts # 0 THEN ts ELSE now)
          IN  /\ \E i \in 1..Len(zaps') : zaps'[i].event_id = EventList[e].id
              /\ since' >= ts
              /\ RankShown(replies'[Len(replies')])
                     \in { IntToStr(r) : r \in RanksOver(zaps', who, wk) }
              /\ Len(zaps') = Len(zaps) + 1 =>
                     WeekTotal(zaps', data.zapper_hex, week_key(ts))
                         = BigAdd(SatsToMsat(data.sats),
                                  WeekTotal(zaps, data.zapper_hex, week_key(ts))) ]_vars

\* PkB's receipt of 60 sats was stored after PkA's of 100 in the same week
\* and its reply shows rank 2
C17_Witness ==
    /\ last.stage = "replied"
    /\ Len(zaps) = 2
    /\ zaps[1].zapper_pubkey = PkA
    /\ zaps[2].zapper_pubkey = PkB
    /\ zaps[2].event_id = EventList[last.ev].id
    /\ zaps[1].week = zaps[2].week
    /\ Len(replies) = 2
    /\ RankShown(replies[2]) = <<"2">>

\* a temporary connection set that was opened and not closed
LeftOpen(use) == use.temp /\ use.opened /\ ~use.closed

\* C18: Temporary connection teardown (as claimed).  When safe_publish_event
\* has returned, none of the temporary connection sets it opened is open.
C18_TemporaryTeardown ==
    last.stage = "replied" => \A i \in 1..Len(pub) : ~LeftOpen(pub[i])

\* C19: Cooperative cancellation (as claimed).  When the process has ended on
\* an interrupt and no exception ended the handling of the last receipt,
\* that receipt, if its row is stored, has had its cursor step, and an
\* interrupt that cut the handling short has left no temporary connection
\* set open.
C19_CooperativeCancellation ==
    (pc = "exited" /\ last.ev # 0 /\ last.stage # "raised") =>
        /\ RowsOf(EventList[last.ev].id) # {} =>
               since >= EventList[last.ev].created_at.v
        /\ last.stage = "interrupted" => \A i \in 1..Len(pub) : ~LeftOpen(pub[i])

\* the amount a reply shows
SatsShown(reply) == reply.content[2]

\* C20: Stored amounts are never negative (as claimed).  Every row of the
\* zaps table has amount_msat >= 0 and no reply shows a negative amount.
C20_NonNegativeAmounts ==
    /\ \A i \in 1..Len(zaps) : zaps[i].amount_msat.q >= 0
    /\ \A i \in 1..Len(replies) : Head(SatsShown(replies[i])) # "-"

\* the replies handed to the publisher for a given event_id
RepliesFor(id) == { i \in 1..Len(replies) : replies[i].for = id }

\* C21: At most one reply per receipt (as claimed).  At most one reply has
\* been handed to the publisher for each event_id, and the handling of a
\* delivery whose insert was dropped as a duplicate ends without a reply.
C21_OneReplyPerReceipt ==
    /\ \A i \in Events : Cardinality(RepliesFor(EventList[i].id)) <= 1
    /\ last.conflict => last.stage # "replied"

====
